---- MODULE Spec2Model ----
(***************************************************************************)
(* Model of the image scraper: core.py (scrape_page, extract_images_urls,  *)
(* download_image) and main.py (scrape_images).                            *)
(*                                                                         *)
(* Python strings are sequences of one-character strings.  An optional     *)
(* value is a sequence of length 0 (None) or 1 (the value).                *)
(***************************************************************************)
EXTENDS Integers, Sequences, FiniteSets, TLC

\* ------------------------------------------------------------------------
\* Python values
\* ------------------------------------------------------------------------

None == <<>>

Some(s) == <<s>>

\* Python truthiness of an optional string: None and "" are falsy.
Truthy(o) == o # None /\ o[1] # <<>>

\* a or b or c
Or3(a, b, c) == IF Truthy(a) THEN a ELSE IF Truthy(b) THEN b ELSE c

UpperLetters == <<"A","B","C","D","E","F","G","H","I","J","K","L","M",
                  "N","O","P","Q","R","S","T","U","V","W","X","Y","Z">>

LowerLetters == <<"a","b","c","d","e","f","g","h","i","j","k","l","m",
                  "n","o","p","q","r","s","t","u","v","w","x","y","z">>

Range(s) == {s[i] : i \in 1..Len(s)}

Letters == Range(UpperLetters) \cup Range(LowerLetters)

Digits == {"0","1","2","3","4","5","6","7","8","9"}

Whitespace == {" ", "\t", "\n", "\r"}

lowerChar(c) ==
    IF c \in Range(UpperLetters)
    THEN LowerLetters[CHOOSE i \in 1..Len(UpperLetters) : UpperLetters[i] = c]
    ELSE c

\* str.lower()
lower(s) == [i \in 1..Len(s) |-> lowerChar(s[i])]

\* str.startswith(p)
startswith(s, p) == Len(s) >= Len(p) /\ SubSeq(s, 1, Len(p)) = p

\* s[i:] with a 1-based first index
From(s, i) == SubSeq(s, i, Len(s))

\* str.find(c, start): 1-based index of the first c at or after start, 0 if none
find(s, c, start) ==
    LET I == {i \in start..Len(s) : s[i] = c}
    IN  IF I = {} THEN 0 ELSE CHOOSE i \in I : \A j \in I : i <= j

\* str.rfind(c): 1-based index of the last c, 0 if none
rfind(s, c) ==
    LET I == {i \in 1..Len(s) : s[i] = c}
    IN  IF I = {} THEN 0 ELSE CHOOSE i \in I : \A j \in I : i >= j

\* str.split(c): the list of pieces between occurrences of c
RECURSIVE split(_, _)
split(s, c) ==
    LET i == find(s, c, 1)
    IN  IF i = 0 THEN <<s>>
        ELSE <<SubSeq(s, 1, i - 1)>> \o split(From(s, i + 1), c)

\* c.join(parts)
RECURSIVE join(_, _)
join(parts, c) ==
    IF Len(parts) = 0 THEN <<>>
    ELSE IF Len(parts) = 1 THEN parts[1]
    ELSE parts[1] \o <<c>> \o join(Tail(parts), c)

\* str.strip()
RECURSIVE lstrip(_)
lstrip(s) == IF s # <<>> /\ s[1] \in Whitespace THEN lstrip(Tail(s)) ELSE s

RECURSIVE rstrip(_)
rstrip(s) ==
    IF s # <<>> /\ s[Len(s)] \in Whitespace
    THEN rstrip(SubSeq(s, 1, Len(s) - 1)) ELSE s

strip(s) == rstrip(lstrip(s))

\* ------------------------------------------------------------------------
\* urllib.parse as used by core.py (urljoin at line 177, urlparse at 243).
\* The URLs of the model hold no ';', so urlparse's params are always empty
\* and urlparse coincides with urlsplit; they hold at most one of '[' and
\* ']' in a host, so only the "Invalid IPv6 URL" check of urlsplit can raise.
\* ------------------------------------------------------------------------

s_http == <<"h","t","t","p">>

s_https == <<"h","t","t","p","s">>

s_ftp == <<"f","t","p">>

scheme_chars == Letters \cup Digits \cup {"+", "-", "."}

uses_relative == {<<>>, s_http, s_https, s_ftp}

uses_netloc == {<<>>, s_http, s_https, s_ftp}

MinPos(S, dflt) == IF S = {} THEN dflt ELSE CHOOSE i \in S : \A j \in S : i <= j

\* urlsplit, the scheme: <<scheme, rest>>
SplitScheme(url, scheme) ==
    LET i == find(url, ":", 1)
    IN  IF /\ i > 1
           /\ url[1] \in Letters
           /\ \A j \in 1..(i - 1) : url[j] \in scheme_chars
        THEN <<lower(SubSeq(url, 1, i - 1)), From(url, i + 1)>>
        ELSE <<scheme, url>>

\* urlsplit, _splitnetloc: <<netloc, rest, whether '//' was there>>
SplitNetloc(u) ==
    IF startswith(u, <<"/", "/">>)
    THEN LET delim == MinPos({find(u, c, 3) : c \in {"/", "?", "#"}} \ {0},
                             Len(u) + 1)
         IN  <<SubSeq(u, 3, delim - 1), From(u, delim), TRUE>>
    ELSE <<<<>>, u, FALSE>>

\* url.split(c, 1): <<before, after>>, after empty when c is not there
Split1(u, c) ==
    LET i == find(u, c, 1)
    IN  IF i = 0 THEN <<u, <<>>>> ELSE <<SubSeq(u, 1, i - 1), From(u, i + 1)>>

\* urlsplit raises ValueError("Invalid IPv6 URL")
InvalidIPv6(netloc) == ("[" \in Range(netloc)) # ("]" \in Range(netloc))

SplitResult(sch, net, rest) ==
    [raised   |-> net[3] /\ InvalidIPv6(net[1]),
     scheme   |-> sch,
     netloc   |-> net[1],
     path     |-> Split1(Split1(rest, "#")[1], "?")[1],
     query    |-> Split1(Split1(rest, "#")[1], "?")[2],
     fragment |-> Split1(rest, "#")[2]]

SplitAfterScheme(s) == SplitResult(s[1], SplitNetloc(s[2]), SplitNetloc(s[2])[2])

\* urlsplit(url, scheme): scheme, netloc, path, query, fragment; raised when
\* urlsplit raises ValueError
urlsplit(url, scheme) == SplitAfterScheme(SplitScheme(url, scheme))

\* urlunsplit: the '//' netloc part
WithNetloc(scheme, netloc, path) ==
    IF netloc # <<>> \/ (scheme # <<>> /\ scheme \in uses_netloc
                         /\ ~startswith(path, <<"/", "/">>))
    THEN <<"/", "/">> \o netloc
         \o (IF path # <<>> /\ path[1] # "/" THEN <<"/">> ELSE <<>>)
         \o path
    ELSE path

\* urlunsplit((scheme, netloc, url, query, fragment))
urlunsplit(scheme, netloc, path, query, fragment) ==
    (IF scheme # <<>> THEN scheme \o <<":">> ELSE <<>>)
    \o WithNetloc(scheme, netloc, path)
    \o (IF query # <<>> THEN <<"?">> \o query ELSE <<>>)
    \o (IF fragment # <<>> THEN <<"#">> \o fragment ELSE <<>>)

\* segments[1:-1] = filter(None, segments[1:-1])
FilterMiddle(segs) ==
    IF Len(segs) <= 2 THEN segs
    ELSE <<segs[1]>>
         \o SelectSeq(SubSeq(segs, 2, Len(segs) - 1), LAMBDA x : x # <<>>)
         \o <<segs[Len(segs)]>>

\* the dot-segment loop of urljoin
RECURSIVE ResolveSegments(_, _)
ResolveSegments(segs, resolved) ==
    IF segs = <<>> THEN resolved
    ELSE LET seg == Head(segs)
         IN  IF seg = <<".", ".">>
             THEN ResolveSegments(Tail(segs),
                      IF resolved = <<>> THEN resolved
                      ELSE SubSeq(resolved, 1, Len(resolved) - 1))
             ELSE IF seg = <<".">>
             THEN ResolveSegments(Tail(segs), resolved)
             ELSE ResolveSegments(Tail(segs), Append(resolved, seg))

\* urljoin: base_parts, without the last segment unless it is empty
BaseParts(bpath) ==
    IF split(bpath, "/")[Len(split(bpath, "/"))] # <<>>
    THEN SubSeq(split(bpath, "/"), 1, Len(split(bpath, "/")) - 1)
    ELSE split(bpath, "/")

\* urljoin: segments
Segments(bpath, upath) ==
    IF upath[1] = "/" THEN split(upath, "/")
    ELSE FilterMiddle(BaseParts(bpath) \o split(upath, "/"))

\* urljoin: resolved_path
ResolvedPath(segs) ==
    IF segs[Len(segs)] \in {<<".">>, <<".", ".">>}
    THEN Append(ResolveSegments(segs, <<>>), <<>>)
    ELSE ResolveSegments(segs, <<>>)

\* '/'.join(resolved_path) or '/'
JoinedPath(res) == IF join(res, "/") = <<>> THEN <<"/">> ELSE join(res, "/")

Returned(v) == [raised |-> FALSE, val |-> v]

\* urljoin once base and url are parsed
JoinParsed(b, u, url) ==
    IF b.raised \/ u.raised THEN [raised |-> TRUE, val |-> <<>>]
    ELSE IF u.scheme # b.scheme \/ u.scheme \notin uses_relative
    THEN Returned(url)
    ELSE IF u.scheme \in uses_netloc /\ u.netloc # <<>>
    THEN Returned(urlunsplit(u.scheme, u.netloc, u.path, u.query, u.fragment))
    ELSE IF u.path = <<>>
    THEN Returned(urlunsplit(u.scheme,
                      IF u.scheme \in uses_netloc THEN b.netloc ELSE u.netloc,
                      b.path,
                      IF u.query = <<>> THEN b.query ELSE u.query,
                      u.fragment))
    ELSE Returned(urlunsplit(u.scheme,
                      IF u.scheme \in uses_netloc THEN b.netloc ELSE u.netloc,
                      JoinedPath(ResolvedPath(Segments(b.path, u.path))),
                      u.query, u.fragment))

JoinWithBase(b, url) == JoinParsed(b, urlsplit(url, b.scheme), url)

\* urljoin(base, url): [raised, val]
urljoin(base, url) ==
    IF base = <<>> THEN Returned(url)
    ELSE IF url = <<>> THEN Returned(base)
    ELSE JoinWithBase(urlsplit(base, <<>>), url)

\* ------------------------------------------------------------------------
\* core.py: extract_images_urls
\* ------------------------------------------------------------------------

\* data-src tried before src
SelectSource_data_first(img) == Or3(img.data_src, img.src, img.data_lazy_src)

\* img.get('src') or img.get('data-src') or img.get('data-lazy-src')
SelectSource(img) == Or3(img.src, img.data_src, img.data_lazy_src)

\* img.get('alt', '').strip()
AltText(img) == strip(IF img.alt = None THEN <<>> ELSE img.alt[1])

\* img_url.startswith(('http', 'https'))
LooksAbsolute(img_url) == startswith(img_url, s_http) \/ startswith(img_url, s_https)

\* One pass of the loop body for the i-th image: the dictionary appended, or
\* nothing when the body raised and the except clause skipped the element.
ProcessImage(page, img, i) ==
    LET img_url  == SelectSource(img)
        alt_text == AltText(img)
    IN  IF ~Truthy(img_url)
        THEN <<[position |-> i, url |-> None, alt |-> alt_text, page_url |-> page]>>
        ELSE IF LooksAbsolute(img_url[1])
        THEN <<[position |-> i, url |-> Some(img_url[1]), alt |-> alt_text,
                page_url |-> page]>>
        ELSE LET j == urljoin(page, img_url[1])
             IN  IF j.raised THEN <<>>
                 ELSE <<[position |-> i, url |-> Some(j.val), alt |-> alt_text,
                         page_url |-> page]>>

\* the try wraps the whole loop: a failing element ends the extraction
RECURSIVE ExtractFrom_abort(_, _, _)
ExtractFrom_abort(page, images, i) ==
    IF i > Len(images) THEN <<>>
    ELSE IF ProcessImage(page, images[i], i) = <<>> THEN <<>>
    ELSE ProcessImage(page, images[i], i) \o ExtractFrom_abort(page, images, i + 1)

RECURSIVE ExtractFrom(_, _, _)
ExtractFrom(page, images, i) ==
    IF i > Len(images) THEN <<>>
    ELSE ProcessImage(page, images[i], i) \o ExtractFrom(page, images, i + 1)

\* extract_images_urls(url, soup); images is soup.find_all('img')
extract_images_urls(page, images) ==
    IF images = <<>> THEN <<>> ELSE ExtractFrom(page, images, 1)

\* ------------------------------------------------------------------------
\* core.py: download_image, file name derivation (lines 230-276)
\* ------------------------------------------------------------------------

s_scheme_http == <<"h","t","t","p",":","/","/">>

s_scheme_https == <<"h","t","t","p","s",":","/","/">>

s_image_slash == <<"i","m","a","g","e","/">>

s_image_ == <<"i","m","a","g","e","_">>

s_jpg == <<".","j","p","g">>

s_jpeg == <<".","j","p","e","g">>

s_png == <<".","p","n","g">>

s_gif == <<".","g","i","f">>

s_webp == <<".","w","e","b","p">>

\* save_dir: str = "downloads"
save_dir == <<"d","o","w","n","l","o","a","d","s">>

\* ['.jpg', '.jpeg', '.png', '.gif', '.webp']
AllowedExt == {s_jpg, s_jpeg, s_png, s_gif, s_webp}

\* url.startswith(('http://', 'https://'))
ValidScheme(u) == startswith(u, s_scheme_http) \/ startswith(u, s_scheme_https)

HexDigits == Digits \cup {"a","b","c","d","e","f","A","B","C","D","E","F"}

\* The character a percent escape stands for.  The escapes of the model's
\* URLs are %2F, %3F, %23, %2E, %3A and %20.
HexDecode(a, b) ==
    LET k == <<lowerChar(a), lowerChar(b)>>
    IN  CASE k = <<"2","f">> -> "/"
          [] k = <<"3","f">> -> "?"
          [] k = <<"2","3">> -> "#"
          [] k = <<"2","e">> -> "."
          [] k = <<"3","a">> -> ":"
          [] k = <<"2","0">> -> " "

\* urllib.parse.unquote
RECURSIVE unquote(_)
unquote(s) ==
    IF s = <<>> THEN <<>>
    ELSE IF s[1] = "%" /\ Len(s) >= 3 /\ s[2] \in HexDigits /\ s[3] \in HexDigits
    THEN <<HexDecode(s[2], s[3])>> \o unquote(From(s, 4))
    ELSE <<s[1]>> \o unquote(Tail(s))

\* os.path.basename
basename(path) == From(path, rfind(path, "/") + 1)

\* re.sub(r'[\\/*?:"<>|]', "_", filename)
IllegalChars == {"\\", "/", "*", "?", ":", "\"", "<", ">", "|"}

Sanitize(filename) ==
    [i \in 1..Len(filename) |->
        IF filename[i] \in IllegalChars THEN "_" ELSE filename[i]]

\* os.path.splitext: <<root, ext>>; leading dots of the last component
\* belong to the root
splitext(name) ==
    LET sepIndex == rfind(name, "/")
        dotIndex == rfind(name, ".")
    IN  IF dotIndex > sepIndex
           /\ \E k \in (sepIndex + 1)..(dotIndex - 1) : name[k] # "."
        THEN <<SubSeq(name, 1, dotIndex - 1), From(name, dotIndex)>>
        ELSE <<name, <<>>>>

\* os.path.join(save_dir, full_filename)
PathJoin(a, b) ==
    IF b # <<>> /\ b[1] = "/" THEN b
    ELSE IF a = <<>> \/ a[Len(a)] = "/" THEN a \o b
    ELSE a \o <<"/">> \o b

\* Lines 239-251: the name before cleaning.  now is str(int(time.time())).
\* raised when urlparse raises ValueError.
RawFilename(u, custom, now) ==
    IF Truthy(custom) THEN [raised |-> FALSE, val |-> custom[1]]
    ELSE LET parsed == urlsplit(unquote(u), <<>>)
             fname  == split(basename(parsed.path), "?")[1]
         IN  IF parsed.raised THEN [raised |-> TRUE, val |-> <<>>]
             ELSE IF fname = <<>> \/ "." \notin Range(fname)
             THEN [raised |-> FALSE, val |-> s_image_ \o now]
             ELSE [raised |-> FALSE, val |-> fname]

\* Lines 239-251: whether the name is synthesized from the clock
UsesClock(u, custom) ==
    /\ ~Truthy(custom)
    /\ LET parsed == urlsplit(unquote(u), <<>>)
           fname  == split(basename(parsed.path), "?")[1]
       IN  ~parsed.raised /\ (fname = <<>> \/ "." \notin Range(fname))

\* Line 257: os.path.splitext(filename)[1].lower()
UrlExt(filename) == lower(splitext(filename)[2])

\* the type, not the subtype, taken from the content type
ProbeExt_type(probe) ==
    IF probe.raised THEN s_jpg
    ELSE IF startswith(probe.content_type, s_image_slash)
    THEN <<".">> \o split(split(probe.content_type, "/")[1], ";")[1]
    ELSE <<>>

\* Lines 260-266: the extension the HEAD probe gives.  probe is
\* [raised, content_type]; content_type is '' when the header is missing.
ProbeExt(probe) ==
    IF probe.raised THEN s_jpg
    ELSE IF startswith(probe.content_type, s_image_slash)
    THEN <<".">> \o split(split(probe.content_type, "/")[2], ";")[1]
    ELSE <<>>

\* no check against the allow-list
EnsureExt_unchecked(file_ext) == IF file_ext = <<>> THEN s_jpg ELSE file_ext

\* Lines 268-272: force a valid image extension
EnsureExt(file_ext) ==
    IF file_ext = <<>> THEN s_jpg
    ELSE IF file_ext \notin AllowedExt THEN s_jpg
    ELSE file_ext

\* Lines 274-276
ComposePath(filename, file_ext) ==
    PathJoin(save_dir, splitext(filename)[1] \o file_ext)

\* Line 258: the HEAD probe is issued when the cleaned name has no extension
NeedsProbe(filename) == UrlExt(filename) = <<>>

\* Lines 257-276: full_path for a cleaned name and the probe's answer
FullPath(filename, probe) ==
    ComposePath(filename,
        EnsureExt(IF NeedsProbe(filename) THEN ProbeExt(probe)
                  ELSE UrlExt(filename)))

\* ------------------------------------------------------------------------
\* Bounds and inputs
\* ------------------------------------------------------------------------

\* most image elements on a page
MaxImgs == 2

\* largest retries argument
MaxRetries == 2

\* most chunks in one response body
MaxChunks == 2

\* retries: int = 2
DefaultRetries == 2

\* page URLs: https://x.com/a/b, http://x.com/d/
PageUrls ==
    {<<"h","t","t","p","s",":","/","/","x",".","c","o","m","/","a","/","b">>,
     <<"h","t","t","p",":","/","/","x",".","c","o","m","/","d","/">>}

\* non-empty attribute values of an image element:
\*   c.png  ../c.png  //cdn.com/i.png  #top  /r/p.gif  http://y.com/z.jpg
\*   https://y.com/z.jpg  http_logo.png  data:AA  //[bad
SrcValues ==
    {<<"c",".","p","n","g">>,
     <<".",".","/","c",".","p","n","g">>,
     <<"/","/","c","d","n",".","c","o","m","/","i",".","p","n","g">>,
     <<"#","t","o","p">>,
     <<"/","r","/","p",".","g","i","f">>,
     <<"h","t","t","p",":","/","/","y",".","c","o","m","/","z",".","j","p","g">>,
     <<"h","t","t","p","s",":","/","/","y",".","c","o","m","/","z",".","j","p","g">>,
     <<"h","t","t","p","_","l","o","g","o",".","p","n","g">>,
     <<"d","a","t","a",":","A","A">>,
     <<"/","/","[","b","a","d">>}

s_d_png == <<"d",".","p","n","g">>

s_l_png == <<"l",".","p","n","g">>

s_alt == <<" ","h","i"," ">>

\* the image elements a page may hold: src, data-src, data-lazy-src, alt,
\* each absent (None) or present with a possibly empty value
Elements ==
    [src : {Some(s) : s \in SrcValues}, data_src : {None}, data_lazy_src : {None},
     alt : {None, Some(s_alt)}]
    \cup
    [src : {None, Some(<<>>)}, data_src : {None, Some(<<>>), Some(s_d_png)},
     data_lazy_src : {None, Some(<<>>), Some(s_l_png)}, alt : {Some(s_alt)}]
    \cup
    [src : {Some(s_d_png)}, data_src : {Some(s_l_png)},
     data_lazy_src : {Some(s_l_png)}, alt : {None}]

Documents(E) == UNION {[1..n -> E] : n \in 0..MaxImgs}

\* the image elements of the pages the driver is run on:
\*   no source, c.png, data:AA, https://x.com/img.jpg?x=1
DriverElements ==
    [src : {None} \cup {Some(s) : s \in
        {<<"c",".","p","n","g">>,
         <<"d","a","t","a",":","A","A">>,
         <<"h","t","t","p","s",":","/","/","x",".","c","o","m","/","i","m","g",".","j","p","g","?","x","=","1">>}},
     data_src : {None}, data_lazy_src : {None}, alt : {None}]

\* url arguments of download_image:
\*   https://x.com/img.jpg?x=1  ftp://x.com/a.png
DownloadUrls ==
    {<<"h","t","t","p","s",":","/","/","x",".","c","o","m","/","i","m","g",".","j","p","g","?","x","=","1">>,
     <<"f","t","p",":","/","/","x",".","c","o","m","/","a",".","p","n","g">>}

\* url arguments for the file name derivation:
\*   https://x.com/img.jpg?x=1  http://x.com/a/p.bmp  http://x.com/a/P.PNG
\*   http://x.com/pic  http://x.com/  https://x.com/a%2Fb.gif
\*   http://x.com/...  http://x.com/.png  http://x.com/a:b.webp
\*   http://x.com/v.tar.jpeg  https://x.com/a.b%3Fc.png  http://[x/a.png
NameUrls ==
    {<<"h","t","t","p","s",":","/","/","x",".","c","o","m","/","i","m","g",".","j","p","g","?","x","=","1">>,
     <<"h","t","t","p",":","/","/","x",".","c","o","m","/","a","/","p",".","b","m","p">>,
     <<"h","t","t","p",":","/","/","x",".","c","o","m","/","a","/","P",".","P","N","G">>,
     <<"h","t","t","p",":","/","/","x",".","c","o","m","/","p","i","c">>,
     <<"h","t","t","p",":","/","/","x",".","c","o","m","/">>,
     <<"h","t","t","p","s",":","/","/","x",".","c","o","m","/","a","%","2","F","b",".","g","i","f">>,
     <<"h","t","t","p",":","/","/","x",".","c","o","m","/",".",".",".">>,
     <<"h","t","t","p",":","/","/","x",".","c","o","m","/",".","p","n","g">>,
     <<"h","t","t","p",":","/","/","x",".","c","o","m","/","a",":","b",".","w","e","b","p">>,
     <<"h","t","t","p",":","/","/","x",".","c","o","m","/","v",".","t","a","r",".","j","p","e","g">>,
     <<"h","t","t","p","s",":","/","/","x",".","c","o","m","/","a",".","b","%","3","F","c",".","p","n","g">>,
     <<"h","t","t","p",":","/","/","[","x","/","a",".","p","n","g">>}

\* custom_filename arguments: vacation  va:c  v.png  v.PNG  v.txt  .hid  a/b  v.
CustomNames ==
    {<<"v","a","c","a","t","i","o","n">>,
     <<"v","a",":","c">>,
     <<"v",".","p","n","g">>,
     <<"v",".","P","N","G">>,
     <<"v",".","t","x","t">>,
     <<".","h","i","d">>,
     <<"a","/","b">>,
     <<"v",".">>}

\* str(int(time.time()))
Nows == {<<"1","7">>, <<"1","8">>}

\* content-type headers a HEAD response may carry ('' when missing):
\*   ''  text/html  image/png  image/jpeg  image/svg+xml  image/PNG
\*   image/gif; q=1  image/webp
HeadContentTypes ==
    {<<>>,
     <<"t","e","x","t","/","h","t","m","l">>,
     <<"i","m","a","g","e","/","p","n","g">>,
     <<"i","m","a","g","e","/","j","p","e","g">>,
     <<"i","m","a","g","e","/","s","v","g","+","x","m","l">>,
     <<"i","m","a","g","e","/","P","N","G">>,
     <<"i","m","a","g","e","/","g","i","f",";"," ","q","=","1">>,
     <<"i","m","a","g","e","/","w","e","b","p">>}

\* what requests.head does: raise, or answer with a content type
Probes ==
    {[raised |-> TRUE, content_type |-> <<>>]}
    \cup {[raised |-> FALSE, content_type |-> c] : c \in HeadContentTypes}

\* content-type headers of a 2xx GET response: image/png  text/html  ''
GetContentTypes ==
    {<<"i","m","a","g","e","/","p","n","g">>,
     <<"t","e","x","t","/","h","t","m","l">>,
     <<>>}

\* what one streamed GET does before the body: raise a transport exception,
\* answer with a non-2xx status, or answer 2xx with a content type
Responses ==
    {[kind |-> "exception", content_type |-> <<>>],
     [kind |-> "status", content_type |-> <<>>]}
    \cup {[kind |-> "ok", content_type |-> c] : c \in GetContentTypes}

\* the chunks iter_content may yield
Chunks == {<<>>, <<"A">>, <<"B">>}

\* files an earlier run left behind: downloads/img.jpg
OldBody == <<"O">>

LeftoverPaths == {<<"d","o","w","n","l","o","a","d","s","/","i","m","g",".","j","p","g">>}

EmptyFs == [p \in {} |-> <<>>]

LeftoverFs == [p \in LeftoverPaths |-> OldBody]

\* ------------------------------------------------------------------------
\* State
\* ------------------------------------------------------------------------

VARIABLES
    html,             \* the image elements of the page the site serves
    page_url,         \* scrape_images: url
    soup,             \* scrape_images: soup (None, or the parsed page)
    image_data,       \* scrape_images: imgs_urls
    idx,              \* scrape_images: position of the for loop in imgs_urls
    calls,            \* the url of every download_image call made, in order
    pc,               \* scrape_images: where it stands
    url,              \* download_image: url
    retries,          \* download_image: retries
    custom_filename,  \* download_image: custom_filename
    fs0,              \* the files of save_dir as download_image was entered
    filename,         \* download_image: filename once cleaned, None before
    head,             \* download_image: what the HEAD probe did, None if not issued
    full_path,        \* download_image: full_path, None until composed
    attempt,          \* download_image: attempt
    outcomes,         \* how each GET attempt of the call went, in order
    trace,            \* the GETs and sleeps of the call, in order
    body,             \* the chunks iter_content has yielded in this attempt
    discarded,        \* what a failed attempt of this call left in the file
    fs,               \* the files of save_dir: path -> bytes
    result,           \* download_image: what it returned or raised
    dpc               \* download_image: where it stands

svars == <<html, page_url, soup, image_data, idx, calls, pc>>

dvars == <<url, retries, custom_filename, fs0, filename, head, full_path, attempt, outcomes,
           trace, body, discarded, fs, result, dpc>>

vars == <<html, page_url, soup, image_data, idx, calls, pc,
          url, retries, custom_filename, fs0, filename, head, full_path,
          attempt, outcomes, trace, body, discarded, fs, result, dpc>>

\* what a call of download_image never changes once entered
cvars == <<url, retries, custom_filename, fs0>>

Pending == [kind |-> "pending", path |-> <<>>]

GetEvent == [ev |-> "get", secs |-> 0]

SleepEvent(n) == [ev |-> "sleep", secs |-> n]

\* the locals of a download_image call as it is entered
EnterCall(u, r, c) ==
    /\ url' = u
    /\ retries' = r
    /\ custom_filename' = c
    /\ fs0' = fs
    /\ filename' = None
    /\ head' = None
    /\ full_path' = None
    /\ attempt' = 0
    /\ outcomes' = <<>>
    /\ trace' = <<>>
    /\ body' = <<>>
    /\ discarded' = None
    /\ result' = Pending
    /\ dpc' = "call"

\* no scrape_images is running: download_image is called on its own
NoDriver ==
    /\ html = <<>>
    /\ page_url = <<>>
    /\ soup = None
    /\ image_data = <<>>
    /\ idx = 0
    /\ calls = <<>>
    /\ pc = "standalone"

\* no download_image is running
NoCall ==
    /\ url = <<>>
    /\ retries = DefaultRetries
    /\ custom_filename = None
    /\ fs0 = fs
    /\ filename = None
    /\ head = None
    /\ full_path = None
    /\ attempt = 0
    /\ outcomes = <<>>
    /\ trace = <<>>
    /\ body = <<>>
    /\ discarded = None
    /\ result = Pending
    /\ dpc = "idle"

\* a call of download_image(u, retries=r, custom_filename=c) is entered
CallEntered(U, R, C) ==
    /\ url \in U
    /\ retries \in R
    /\ custom_filename \in C
    /\ fs0 = fs
    /\ filename = None
    /\ head = None
    /\ full_path = None
    /\ attempt = 0
    /\ outcomes = <<>>
    /\ trace = <<>>
    /\ body = <<>>
    /\ discarded = None
    /\ result = Pending
    /\ dpc = "call"

\* scrape_images(url) is entered
Init ==
    /\ html \in Documents(DriverElements)
    /\ page_url \in PageUrls
    /\ soup = None
    /\ image_data = <<>>
    /\ idx = 0
    /\ calls = <<>>
    /\ pc = "fetch"
    /\ fs = EmptyFs
    /\ NoCall

\* extract_images_urls(url, soup) is entered
InitExtract ==
    /\ html \in Documents(Elements)
    /\ page_url \in PageUrls
    /\ soup = Some(html)
    /\ image_data = <<>>
    /\ idx = 0
    /\ calls = <<>>
    /\ pc = "extract"
    /\ fs = EmptyFs
    /\ NoCall

\* download_image(url, retries=retries) is entered
InitDownload ==
    /\ NoDriver
    /\ fs \in {EmptyFs, LeftoverFs}
    /\ CallEntered(DownloadUrls, -1..MaxRetries, {None})

\* download_image(url, custom_filename=custom_filename) is entered
InitName ==
    /\ NoDriver
    /\ fs = EmptyFs
    /\ CallEntered(NameUrls, {0, 1}, {None, Some(<<>>)} \cup {Some(c) : c \in CustomNames})

\* ------------------------------------------------------------------------
\* core.py: download_image
\* ------------------------------------------------------------------------

\* return value / raise
Finish(kind, path) ==
    /\ result' = [kind |-> kind, path |-> path]
    /\ dpc' = IF kind \in {"ValueError", "OSError"} THEN "raised" ELSE "returned"

\* no early return on the last attempt
HandleRequestException_always_sleep == dpc' = "sleep" /\ UNCHANGED result

\* Lines 305-310: the except clause of one attempt
HandleRequestException ==
    IF attempt = retries
    THEN Finish("none", <<>>)
    ELSE dpc' = "sleep" /\ UNCHANGED result

\* Lines 230-276: validation, makedirs, file name, HEAD probe, full_path
Prepare ==
    /\ dpc = "call"
    /\ UNCHANGED <<svars, cvars, attempt, outcomes, trace, body, discarded, fs>>
    /\ IF ~ValidScheme(url)
       THEN Finish("ValueError", <<>>) /\ UNCHANGED <<filename, head, full_path>>
       ELSE \E made \in BOOLEAN :
            IF ~made
            THEN Finish("OSError", <<>>) /\ UNCHANGED <<filename, head, full_path>>
            ELSE \E now \in (IF UsesClock(url, custom_filename) THEN Nows ELSE {<<>>}) :
                 LET raw == RawFilename(url, custom_filename, now)
                 IN  IF raw.raised
                     THEN Finish("ValueError", <<>>) /\ UNCHANGED <<filename, head, full_path>>
                     ELSE LET clean == Sanitize(raw.val)
                          IN  \E probe \in (IF NeedsProbe(clean) THEN Probes
                                            ELSE {[raised |-> TRUE, content_type |-> <<>>]}) :
                              /\ filename' = Some(clean)
                              /\ head' = IF NeedsProbe(clean) THEN Some(probe) ELSE None
                              /\ full_path' = Some(FullPath(clean, probe))
                              /\ IF retries + 1 <= 0
                                 THEN Finish("none", <<>>)
                                 ELSE dpc' = "attempt" /\ UNCHANGED result

\* Line 292: content_type.startswith('image/')
IsImage(content_type) == startswith(content_type, s_image_slash)

\* a mismatch handled like a failed request
OnMismatch_retry == HandleRequestException

\* Lines 292-294: the response is not an image
OnMismatch == Finish("none", <<>>)

\* Lines 281-294: one streamed GET up to the content-type check
Attempt ==
    /\ dpc = "attempt"
    /\ trace' = Append(trace, GetEvent)
    /\ UNCHANGED <<svars, cvars, filename, head, full_path, attempt,
                   discarded, fs>>
    /\ \E r \in Responses :
         IF r.kind # "ok"
         THEN /\ outcomes' = Append(outcomes, r.kind)
              /\ body' = <<>>
              /\ HandleRequestException
         ELSE IF ~IsImage(r.content_type)
         THEN /\ outcomes' = Append(outcomes, "not_image")
              /\ body' = <<>>
              /\ OnMismatch
         ELSE /\ outcomes' = Append(outcomes, "image")
              /\ body' = <<>>
              /\ dpc' = "open"
              /\ UNCHANGED result

\* the file opened without truncation
Truncated_append(files, path) ==
    [p \in DOMAIN files \cup {path} |-> IF p \in DOMAIN files THEN files[p] ELSE <<>>]

\* open(full_path, 'wb'): the file as it is once opened
Truncated(files, path) ==
    [p \in DOMAIN files \cup {path} |-> IF p = path THEN <<>> ELSE files[p]]

\* f.write(chunk)
Written(files, path, chunk) == [files EXCEPT ![path] = @ \o chunk]

\* Line 297: open(full_path, 'wb')
OpenFile ==
    /\ dpc = "open"
    /\ UNCHANGED <<svars, cvars, filename, head, full_path, attempt,
                   outcomes, trace, body, discarded>>
    /\ \E opened \in BOOLEAN :
         IF opened
         THEN fs' = Truncated(fs, full_path[1]) /\ dpc' = "stream" /\ UNCHANGED result
         ELSE Finish("OSError", <<>>) /\ UNCHANGED fs

\* Lines 298-300: iter_content yields one more chunk
StreamChunk ==
    /\ dpc = "stream"
    /\ Len(body) < MaxChunks
    /\ UNCHANGED <<svars, cvars, filename, head, full_path, attempt,
                   outcomes, trace, discarded>>
    /\ \E chunk \in Chunks :
         /\ body' = Append(body, chunk)
         /\ IF chunk = <<>>
            THEN UNCHANGED <<fs, result, dpc>>
            ELSE \E wrote \in BOOLEAN :
                 IF wrote
                 THEN fs' = Written(fs, full_path[1], chunk) /\ UNCHANGED <<result, dpc>>
                 ELSE Finish("OSError", <<>>) /\ UNCHANGED fs

\* Lines 302-303: the body is exhausted
StreamEnd ==
    /\ dpc = "stream"
    /\ Finish("path", full_path[1])
    /\ UNCHANGED <<svars, cvars, filename, head, full_path, attempt,
                   outcomes, trace, body, discarded, fs>>

\* Lines 298, 305: iter_content raises a transport exception mid-body
StreamError ==
    /\ dpc = "stream"
    /\ outcomes' = [outcomes EXCEPT ![Len(outcomes)] = "exception"]
    /\ discarded' = Some(fs[full_path[1]])
    /\ HandleRequestException
    /\ UNCHANGED <<svars, cvars, filename, head, full_path, attempt,
                   trace, body, fs>>

\* the backoff one step ahead
BackoffSeconds_next(n) == 2 ^ (n + 1)

\* Line 310: 2 ** attempt
BackoffSeconds(n) == 2 ^ n

\* Lines 310, 279, 312: time.sleep(2 ** attempt), then the next pass of the
\* for loop, or return None when range(retries + 1) is exhausted
Sleep ==
    /\ dpc = "sleep"
    /\ trace' = Append(trace, SleepEvent(BackoffSeconds(attempt)))
    /\ attempt' = attempt + 1
    /\ IF attempt + 1 < retries + 1
       THEN dpc' = "attempt" /\ UNCHANGED result
       ELSE Finish("none", <<>>)
    /\ UNCHANGED <<svars, cvars, filename, head, full_path,
                   outcomes, body, discarded, fs>>

DownloadNext ==
    \/ Prepare
    \/ Attempt
    \/ OpenFile
    \/ StreamChunk
    \/ StreamEnd
    \/ StreamError
    \/ Sleep

\* ------------------------------------------------------------------------
\* core.py: scrape_page; main.py: scrape_images
\* ------------------------------------------------------------------------

\* Line 89 of main.py: scrape_page returns the parsed page, or None on any
\* failure (every exception is caught in scrape_page)
ScrapePage ==
    /\ pc = "fetch"
    /\ \E fetched \in BOOLEAN :
         /\ soup' = IF fetched THEN Some(html) ELSE None
         /\ pc' = IF fetched THEN "extract" ELSE "done"
    /\ UNCHANGED <<html, page_url, image_data, idx, calls, dvars>>

\* Line 93 of main.py: imgs_urls = extract_images_urls(url, soup)
ExtractImages ==
    /\ pc = "extract"
    /\ image_data' = extract_images_urls(page_url, soup[1])
    /\ idx' = 1
    /\ pc' = "loop"
    /\ UNCHANGED <<html, page_url, soup, calls, dvars>>

\* Lines 96-98 of main.py: one pass of the for loop up to the call
LoopStep ==
    /\ pc = "loop"
    /\ UNCHANGED <<html, page_url, soup, image_data>>
    /\ IF idx > Len(image_data)
       THEN pc' = "done" /\ UNCHANGED <<idx, calls, dvars>>
       ELSE IF Truthy(image_data[idx].url)
       THEN /\ EnterCall(image_data[idx].url[1], DefaultRetries, None)
            /\ calls' = Append(calls, image_data[idx].url[1])
            /\ pc' = "downloading"
            /\ UNCHANGED <<idx, fs>>
       ELSE idx' = idx + 1 /\ UNCHANGED <<pc, calls, dvars>>

\* Line 98 of main.py: download_image returned
Return ==
    /\ pc = "downloading"
    /\ dpc = "returned"
    /\ idx' = idx + 1
    /\ pc' = "loop"
    /\ dpc' = "idle"
    /\ UNCHANGED <<html, page_url, soup, image_data, calls, cvars, filename,
                   head, full_path, attempt, outcomes, trace, body, discarded,
                   fs, result>>

\* Lines 99-100 of main.py: download_image raised; except Exception logs it
\* and scrape_images returns
Catch ==
    /\ pc = "downloading"
    /\ dpc = "raised"
    /\ pc' = "done"
    /\ dpc' = "idle"
    /\ UNCHANGED <<html, page_url, soup, image_data, idx, calls, cvars,
                   filename, head, full_path, attempt, outcomes, trace, body,
                   discarded, fs, result>>

Next ==
    \/ ScrapePage
    \/ ExtractImages
    \/ LoopStep
    \/ Return
    \/ Catch
    \/ DownloadNext

Spec == Init /\ [][Next]_vars

SpecExtract == InitExtract /\ [][ExtractImages]_vars

SpecDownload == InitDownload /\ [][DownloadNext]_vars

SpecName == InitName /\ [][DownloadNext]_vars

\* ------------------------------------------------------------------------
\* Properties of extract_images_urls (checked under SpecExtract)
\* ------------------------------------------------------------------------

\* extract_images_urls has returned
Extracted == pc = "loop"

Present(a) == a # None /\ a[1] # <<>>

\* the first non-empty value among src, data-src, data-lazy-src; None if none
FirstNonEmpty(img) ==
    IF Present(img.src) THEN img.src
    ELSE IF Present(img.data_src) THEN img.data_src
    ELSE IF Present(img.data_lazy_src) THEN img.data_lazy_src
    ELSE None

\* an absolute http:// or https:// URL
AbsoluteHttp(r) ==
    \/ Len(r) >= 7 /\ SubSeq(r, 1, 7) = <<"h","t","t","p",":","/","/">>
    \/ Len(r) >= 8 /\ SubSeq(r, 1, 8) = <<"h","t","t","p","s",":","/","/">>

\* the element's source is relative and cannot be joined to the page URL
ProcessingFails(img) ==
    /\ FirstNonEmpty(img) # None
    /\ ~AbsoluteHttp(FirstNonEmpty(img)[1])
    /\ urljoin(page_url, FirstNonEmpty(img)[1]).raised

\* the reference carries the element's trimmed alt text and the page URL
Describes(ref, img) ==
    /\ ref.alt = strip(IF img.alt = None THEN <<>> ELSE img.alt[1])
    /\ ref.page_url = page_url
    /\ (ref.url = None) = (FirstNonEmpty(img) = None)

C7_Claim ==
    Extracted =>
        \A k \in 1..Len(image_data) :
            LET r == FirstNonEmpty(html[image_data[k].position])
            IN  r # None =>
                    image_data[k].url =
                        IF AbsoluteHttp(r[1]) THEN r
                        ELSE Some(urljoin(page_url, r[1]).val)

\* C8: the emitted url comes from the first non-empty of src, data-src,
\* data-lazy-src; it is null exactly when all three are absent or empty, and
\* such an element is still emitted with its position, alt and page URL.
C8_Sources ==
    Extracted =>
        /\ \A k \in 1..Len(image_data) :
             LET r == FirstNonEmpty(html[image_data[k].position])
             IN  /\ (image_data[k].url = None) = (r = None)
                 /\ r # None =>
                      image_data[k].url \in {r, Some(urljoin(page_url, r[1]).val)}
        /\ \A i \in 1..Len(html) :
             FirstNonEmpty(html[i]) = None =>
                 \E k \in 1..Len(image_data) :
                     image_data[k] =
                         [position |-> i, url |-> None,
                          alt |-> strip(IF html[i].alt = None THEN <<>>
                                        ELSE html[i].alt[1]),
                          page_url |-> page_url]

\* an empty src and an empty data-src fall through to data-lazy-src, and an
\* element with no source is emitted with a null url
C8_Witness ==
    /\ Extracted
    /\ Len(html) = 2
    /\ html[1].src = Some(<<>>)
    /\ html[1].data_src = Some(<<>>)
    /\ html[1].data_lazy_src = Some(s_l_png)
    /\ html[2].src = None /\ html[2].data_src = Some(<<>>) /\ html[2].data_lazy_src = None
    /\ Len(image_data) = 2
    /\ image_data[1].url = Some(urljoin(page_url, s_l_png).val)
    /\ image_data[2].url = None
    /\ image_data[2].position = 2

\* ------------------------------------------------------------------------
\* Properties of download_image (checked under SpecDownload and SpecName)
\* ------------------------------------------------------------------------

\* download_image has returned or raised
Ended == dpc \in {"returned", "raised"}

Transient == {"exception", "status"}

\* GET, sleep 1, GET, sleep 2, ..., GET: k + 1 GETs, k sleeps of 1, 2, ..., 2^(k-1)
ExpectedTrace(k) ==
    [i \in 1..(2 * k + 1) |->
        IF i % 2 = 1 THEN [ev |-> "get", secs |-> 0]
        ELSE [ev |-> "sleep", secs |-> 2 ^ ((i \div 2) - 1)]]

\* the first k attempts failed transiently and attempt k + 1 got a complete
\* 2xx image response
FailedThenImage ==
    /\ retries >= 0
    /\ Ended
    /\ outcomes # <<>>
    /\ outcomes[Len(outcomes)] = "image"
    /\ \A j \in 1..(Len(outcomes) - 1) : outcomes[j] \in Transient

\* C2 as claimed: k transient failures and then a 2xx image response give
\* exactly k + 1 GETs, sleeps of 1, 2, ..., 2^(k-1) between them and none
\* before the first, and the saved path as the return value.
C2_Claim ==
    FailedThenImage =>
        /\ trace = ExpectedTrace(Len(outcomes) - 1)
        /\ dpc = "returned"
        /\ result = [kind |-> "path", path |-> full_path[1]]

\* C2 amended: the same GETs and sleeps; the saved path is returned unless
\* opening or writing the destination file raises OSError, which then
\* propagates to the caller.
C2_Amended ==
    FailedThenImage =>
        /\ trace = ExpectedTrace(Len(outcomes) - 1)
        /\ \/ dpc = "returned" /\ result = [kind |-> "path", path |-> full_path[1]]
           \/ dpc = "raised" /\ result.kind = "OSError"

\* two transient failures of different kinds, then success on the last attempt
C2_Witness ==
    /\ dpc = "returned"
    /\ retries = 2
    /\ outcomes = <<"exception", "status", "image">>
    /\ result.kind = "path"
    /\ Len(trace) = 5

\* C3: once an attempt gets a 2xx response that is not an image, the call has
\* returned null, that GET is the last event (no further GET, no sleep), the
\* files are as the previous attempt left them, and on the first attempt
\* exactly one GET was issued.
C3_Mismatch ==
    (outcomes # <<>> /\ outcomes[Len(outcomes)] = "not_image") =>
        /\ dpc = "returned"
        /\ result = [kind |-> "none", path |-> <<>>]
        /\ trace = ExpectedTrace(Len(outcomes) - 1)
        /\ IF discarded = None THEN fs = fs0
           ELSE fs = [p \in DOMAIN fs0 \cup {full_path[1]} |->
                        IF p = full_path[1] THEN discarded[1] ELSE fs0[p]]
        /\ Len(outcomes) = 1 => trace = <<[ev |-> "get", secs |-> 0]>>

\* a mismatch on the first attempt with retries left
C3_Witness ==
    /\ outcomes = <<"not_image">>
    /\ retries = 2
    /\ dpc = "returned"
    /\ fs0 = LeftoverFs

\* C6: retries + 1 transient failures give exactly retries + 1 GETs, retries
\* sleeps (none after the last failure) and a null return, not an exception.
C6_Exhausted ==
    (/\ retries >= 0
     /\ Len(outcomes) = retries + 1
     /\ \A j \in 1..Len(outcomes) : outcomes[j] \in Transient) =>
        /\ dpc = "returned"
        /\ result = [kind |-> "none", path |-> <<>>]
        /\ trace = ExpectedTrace(retries)

\* three failures with retries = 2, one of them mid-body
C6_Witness ==
    /\ retries = 2
    /\ outcomes = <<"status", "exception", "exception">>
    /\ discarded # None
    /\ dpc = "returned"
    /\ result.kind = "none"

RECURSIVE Concat(_)
Concat(chunks) == IF chunks = <<>> THEN <<>> ELSE Head(chunks) \o Concat(Tail(chunks))

\* C10: a returned path names a file holding exactly the non-empty chunks of
\* the last attempt's body, in order; and the files change only while an
\* attempt that got a 2xx image response is open.
C10_Content ==
    /\ [](dpc = "returned" /\ result.kind = "path" =>
            /\ result.path \in DOMAIN fs
            /\ fs[result.path] = Concat(SelectSeq(body, LAMBDA c : c # <<>>)))
    /\ [][fs' # fs => /\ dpc \in {"open", "stream"}
                      /\ outcomes[Len(outcomes)] = "image"]_vars

\* the file existed before the call, an earlier attempt left "A" in it, and
\* the last attempt's body was an empty chunk and "B"
C10_Witness ==
    /\ dpc = "returned"
    /\ result.kind = "path"
    /\ result.path \in DOMAIN fs0
    /\ fs0[result.path] = OldBody
    /\ discarded = Some(<<"A">>)
    /\ body = <<<<>>, <<"B">>>>
    /\ fs[result.path] = <<"B">>

\* the extension of a path: from its last dot
PathExt(path) == SubSeq(path, rfind(path, "."), Len(path))

\* s occurs in t, letter case ignored
OccursIn(s, t) ==
    \E i \in 1..Len(t) :
        i + Len(s) - 1 <= Len(t) /\ lower(SubSeq(t, i, i + Len(s) - 1)) = s

\* C4: the composed path ends in one of the five allowed extensions, a
\* successful call returns that path, and the extension is other than .jpg
\* only when the name given or the probed content type carries it.
C4_Extension ==
    full_path # None =>
        /\ PathExt(full_path[1]) \in {s_jpg, s_jpeg, s_png, s_gif, s_webp}
        /\ result.kind = "path" => result.path = full_path[1]
        /\ PathExt(full_path[1]) # s_jpg =>
             IF head = None
             THEN OccursIn(PathExt(full_path[1]),
                           IF Truthy(custom_filename) THEN custom_filename[1]
                           ELSE unquote(url))
             ELSE /\ ~head[1].raised
                  /\ OccursIn(Tail(PathExt(full_path[1])), head[1].content_type)

\* a .bmp URL is saved as .jpg
C4_Witness ==
    /\ result.kind = "path"
    /\ custom_filename = None
    /\ url = <<"h","t","t","p",":","/","/","x",".","c","o","m","/","a","/","p",".","b","m","p">>
    /\ result.path = <<"d","o","w","n","l","o","a","d","s","/","p",".","j","p","g">>

\* the custom name has no dot
NoDot(name) == \A i \in 1..Len(name) : name[i] # "."

\* the name has no extension: no dot that follows a character other than a dot
NoExtension(name) ==
    ~\E i \in 1..Len(name) : name[i] = "." /\ \E j \in 1..(i - 1) : name[j] # "."

Underscored(name) ==
    [i \in 1..Len(name) |->
        IF name[i] \in {"\\", "/", "*", "?", ":", "\"", "<", ">", "|"}
        THEN "_" ELSE name[i]]

\* the probe answered image/X with X one of jpg, jpeg, png, gif, webp
ProbedAllowed ==
    /\ head # None
    /\ ~head[1].raised
    /\ \E e \in {s_jpg, s_jpeg, s_png, s_gif, s_webp} :
         head[1].content_type = <<"i","m","a","g","e","/">> \o Tail(e)

ProbeRules ==
    /\ head # None => filename # None /\ NoExtension(filename[1])
    /\ (head # None /\ full_path # None
        /\ (head[1].raised
            \/ ~(Len(head[1].content_type) >= 6
                 /\ SubSeq(head[1].content_type, 1, 6) = <<"i","m","a","g","e","/">>)))
       => PathExt(full_path[1]) = s_jpg

RECURSIVE NonNullUrls(_)
NonNullUrls(refs) ==
    IF refs = <<>> THEN <<>>
    ELSE (IF Head(refs).url = None THEN <<>> ELSE <<Head(refs).url[1]>>)
         \o NonNullUrls(Tail(refs))

\* the last download ended because save_dir could not be created
MakedirsFailed == result.kind = "OSError" /\ full_path = None

\* C1 as claimed: once scrape_images is done with a fetched page,
\* download_image was called exactly once for each reference with a non-null
\* url, in document order, and for no other, whether each download succeeded,
\* had an invalid URL scheme, a content-type mismatch, exhausted its retries
\* or failed to write its file.
C1_Claim ==
    (pc = "done" /\ soup # None /\ ~MakedirsFailed) => calls = NonNullUrls(image_data)

====
